---- MODULE Spec2Model ----
(***************************************************************************)
(* Model of the TodoApp component of src/src/app/page.tsx: the React state *)
(* (todos, inputValue, selectedDate), the two effects (load on mount, save *)
(* on change of todos), the event handlers, and the render pass with the   *)
(* derived views isOverdue / isDueToday.  localStorage['todos'] is the     *)
(* variable store.                                                         *)
(*                                                                         *)
(* Time is counted in clock ticks (the resolution of Date.now()); a        *)
(* calendar day is DayLen ticks.  A JavaScript value that is a Date, a     *)
(* string, null or undefined is a record [t, v] whose tag t tells which.   *)
(* Strings are sequences of one-character strings.                         *)
(***************************************************************************)
EXTENDS Integers, Sequences, FiniteSets, TLC

VARIABLES
    todos,          \* useState<Todo[]>: the state of the last committed render
    inputValue,     \* useState(''): the text input
    selectedDate,   \* useState(''): the date input, NoDate or a day number
    store,          \* localStorage item 'todos'
    pending,        \* the updates queued by setTodos (set, val) and by
                    \* setInputValue('') / setSelectedDate('') (clear), applied
                    \* by the next render
    phase,          \* where React is: mounted, saveEffect, render, idle,
                    \* renderError, saveError
    now,            \* the wall clock, in ticks
    tz,             \* offset of local time from UTC, in ticks
    ignored         \* TRUE iff the last handler call was an addTodo that returned
                    \* without calling setTodos

vars == <<todos, inputValue, selectedDate, store, pending, phase, now, tz, ignored>>

----------------------------------------------------------------------------
(* Bounds *)

MaxTodos == 2       \* addTodo is not offered beyond this collection length
MaxClock == 1       \* the clock stops ticking here

(* Program constants of the model's time scale *)
DayLen == 2         \* ticks per calendar day

----------------------------------------------------------------------------
(* JavaScript values *)

Undefined == [t |-> "undefined", v |-> 0]
Null      == [t |-> "null", v |-> 0]
InvalidDate == [t |-> "invalid", v |-> 0]
DateOf(n) == [t |-> "date", v |-> n]         \* a Date object of instant n
StringOf(n) == [t |-> "string", v |-> n]     \* the ISO text of instant n

NoId == -1          \* todo.id === undefined
NoDate == -1        \* selectedDate === ''

\* new Date(x), for x a JSON value (line 27)
NewDate(x) ==
    CASE x.t = "string"    -> DateOf(x.v)
      [] x.t = "null"      -> DateOf(0)
      [] x.t = "undefined" -> InvalidDate
      [] OTHER             -> x

\* new Date(selectedDate) for the 'YYYY-MM-DD' value of a date input: UTC midnight
\* of that day (line 48)
DateOfInput(d) == DateOf(d * DayLen)

\* Date.prototype.toJSON / JSON.stringify of a property value (line 38): a Date
\* becomes its ISO text, an invalid Date null, undefined is omitted
ToJSONValue(x) ==
    CASE x.t = "date"    -> StringOf(x.v)
      [] x.t = "invalid" -> Null
      [] OTHER           -> x

\* the instant of local midnight of the local calendar day of instant n
\* (Date.prototype.setHours(0, 0, 0, 0), lines 86-87)
LocalDay(n, z) == (n + z) \div DayLen
SetHoursZero(n, z) == LocalDay(n, z) * DayLen - z

\* String.prototype.trim (lines 42, 45)
IsSpace(c) == c = " "

RECURSIVE TrimStart(_)
TrimStart(s) ==
    IF s # <<>> /\ IsSpace(Head(s)) THEN TrimStart(Tail(s)) ELSE s

RECURSIVE TrimEnd(_)
TrimEnd(s) ==
    IF s # <<>> /\ IsSpace(s[Len(s)]) THEN TrimEnd(SubSeq(s, 1, Len(s) - 1)) ELSE s

trim(s) == TrimEnd(TrimStart(s))

----------------------------------------------------------------------------
(* Persistence *)

\* JSON.stringify of one todo (line 38)
StringifyTodo(todo) ==
    [id |-> todo.id, title |-> todo.title, completed |-> todo.completed,
     createdAt |-> ToJSONValue(todo.createdAt), dueDate |-> ToJSONValue(todo.dueDate)]

\* JSON.stringify(todos) (line 38)
Stringify(ts) ==
    [kind |-> "array", items |-> [i \in 1..Len(ts) |-> StringifyTodo(ts[i])]]

\* the mapping of lines 25-28: only createdAt is converted back to a Date
ReviveTodo(item) == [item EXCEPT !.createdAt = NewDate(item.createdAt)]

\* todosWithDates, lines 23-28, for a store content that parses to an array
todosWithDates(s) == [i \in 1..Len(s.items) |-> ReviveTodo(s.items[i])]

\* JSON.parse(savedTodos) returns and parsedTodos.map exists (lines 23, 25)
ParsesToArray(s) == s.kind = "array"

Absent == [kind |-> "absent", items |-> <<>>]         \* getItem returns null
BadText == [kind |-> "text", items |-> <<>>]          \* text JSON.parse rejects
NotArray == [kind |-> "object", items |-> <<>>]       \* '{}', '5', 'null'
\* '[1]' or '[{}]': spreading the element gives no property at all
EmptyItem == [id |-> NoId, title |-> <<>>, completed |-> FALSE,
              createdAt |-> Undefined, dueDate |-> Undefined]
JunkArray == [kind |-> "array", items |-> <<EmptyItem>>]

InitialStores == {Absent, BadText, NotArray, JunkArray}

NoPending == [set |-> FALSE, val |-> <<>>, clear |-> FALSE]
\* setTodos(ts): the value queued last is the one the next render uses
SetTodos(ts) == [set |-> TRUE, val |-> ts, clear |-> pending.clear]
\* setInputValue(''); setSelectedDate('') (lines 51-52)
ClearInputs(q) == [q EXCEPT !.clear = TRUE]

----------------------------------------------------------------------------
(* Derived views *)

\* line 72 with the test negated
notCompletedCount == Len(SelectSeq(todos, LAMBDA todo : ~todo.completed))

completedCount == Len(SelectSeq(todos, LAMBDA todo : todo.completed))
totalCount == Len(todos)
\* the Remaining figure, line 148
remainingCount == totalCount - completedCount

\* isOverdue throws a TypeError: dueDate is truthy and has no setHours (line 87)
IsOverdueThrows(dueDate) == dueDate.t = "string"

\* the value dueDate holds after isOverdue(dueDate) returned (line 87 mutates it)
DueDateAfterIsOverdue(dueDate, z) ==
    IF dueDate.t = "date" THEN DateOf(SetHoursZero(dueDate.v, z)) ELSE dueDate

\* line 88 with <= for <
isOverdueOrToday(dueDate, today, z) ==
    /\ dueDate.t = "date"
    /\ SetHoursZero(dueDate.v, z) <= SetHoursZero(today, z)

\* the result of isOverdue (lines 83-89)
isOverdue(dueDate, today, z) ==
    /\ dueDate.t = "date"
    /\ SetHoursZero(dueDate.v, z) < SetHoursZero(today, z)

\* the result of isDueToday (lines 91-95)
isDueToday(dueDate, today, z) ==
    /\ dueDate.t = "date"
    /\ LocalDay(dueDate.v, z) = LocalDay(today, z)

\* rendering the list (lines 164-226) calls isOverdue on every truthy dueDate
RenderThrows(ts) == \E i \in 1..Len(ts) : IsOverdueThrows(ts[i].dueDate)

RenderedTodo(todo, z) ==
    [todo EXCEPT !.dueDate = DueDateAfterIsOverdue(todo.dueDate, z)]

RenderedTodos(ts, z) == [i \in 1..Len(ts) |-> RenderedTodo(ts[i], z)]

----------------------------------------------------------------------------
(* Inputs *)

Inputs == {<<" ">>, <<" ", "A", " ">>}
DueDays == {0}
Offsets == {-1, 0, 1}
Ids == {NoId} \cup (0..MaxClock)

----------------------------------------------------------------------------
(* Initial state: the first render, before any effect has run *)

Init ==
    /\ todos = <<>>
    /\ inputValue = <<>>
    /\ selectedDate = NoDate
    /\ store \in InitialStores
    /\ pending = NoPending
    /\ phase = "mounted"
    /\ now = 0
    /\ tz \in Offsets
    /\ ignored = FALSE

(* Effects *)

\* the load effect, lines 19-34
LoadEffect ==
    /\ phase = "mounted"
    /\ pending' = IF store.kind # "absent" /\ ParsesToArray(store)
                  THEN SetTodos(todosWithDates(store))
                  ELSE pending
    /\ phase' = "saveEffect"
    /\ UNCHANGED <<todos, inputValue, selectedDate, store, now, tz, ignored>>

\* after the effects of a commit: render again if an update is queued
AfterEffects == IF pending.set THEN "render" ELSE "idle"

\* a save effect that writes only a collection that is not empty
SaveEffectUnlessEmpty ==
    /\ phase = "saveEffect"
    /\ store' = IF todos = <<>> THEN store ELSE Stringify(todos)
    /\ phase' = AfterEffects
    /\ UNCHANGED <<todos, inputValue, selectedDate, pending, now, tz, ignored>>

\* the save effect, lines 37-39, when setItem returns
SaveEffect ==
    /\ phase = "saveEffect"
    /\ store' = Stringify(todos)
    /\ phase' = AfterEffects
    /\ UNCHANGED <<todos, inputValue, selectedDate, pending, now, tz, ignored>>

\* the save effect when setItem throws (quota exceeded): nothing catches it, and
\* React unmounts the component, whose state is gone with it
SaveEffectThrows ==
    /\ phase = "saveEffect"
    /\ phase' = "saveError"
    /\ todos' = <<>>
    /\ inputValue' = <<>>
    /\ selectedDate' = NoDate
    /\ pending' = NoPending
    /\ ignored' = FALSE
    /\ UNCHANGED <<store, now, tz>>

\* a render after which the save effect does not run (its dependency list
\* without todos)
RenderWithoutSave ==
    /\ phase = "render"
    /\ pending.set
    /\ IF RenderThrows(pending.val)
       THEN /\ phase' = "renderError"
            /\ todos' = <<>>
            /\ inputValue' = <<>>
            /\ selectedDate' = NoDate
       ELSE /\ phase' = "idle"
            /\ todos' = RenderedTodos(pending.val, tz)
            /\ inputValue' = IF pending.clear THEN <<>> ELSE inputValue
            /\ selectedDate' = IF pending.clear THEN NoDate ELSE selectedDate
    /\ pending' = NoPending
    /\ UNCHANGED <<store, now, tz, ignored>>

\* a render with the queued value of todos, lines 72-242; a TypeError thrown by
\* isOverdue is caught by nothing and React unmounts the component
Render ==
    /\ phase = "render"
    /\ pending.set
    /\ IF RenderThrows(pending.val)
       THEN /\ phase' = "renderError"
            /\ todos' = <<>>
            /\ inputValue' = <<>>
            /\ selectedDate' = NoDate
       ELSE /\ phase' = "saveEffect"
            /\ todos' = RenderedTodos(pending.val, tz)
            /\ inputValue' = IF pending.clear THEN <<>> ELSE inputValue
            /\ selectedDate' = IF pending.clear THEN NoDate ELSE selectedDate
    /\ pending' = NoPending
    /\ UNCHANGED <<store, now, tz, ignored>>

(* Event handlers, accepted when React has nothing left to flush *)

\* onChange of the text input, line 115
ChangeInput(v) ==
    /\ phase = "idle"
    /\ inputValue' = v
    /\ ignored' = FALSE
    /\ UNCHANGED <<todos, selectedDate, store, pending, phase, now, tz>>

\* onChange of the date input, line 123
ChangeDate(d) ==
    /\ phase = "idle"
    /\ selectedDate' = d
    /\ ignored' = FALSE
    /\ UNCHANGED <<todos, inputValue, store, pending, phase, now, tz>>

\* the todo addTodo builds, lines 43-49
newTodo ==
    [id |-> now, title |-> trim(inputValue), completed |-> FALSE,
     createdAt |-> DateOf(now),
     dueDate |-> IF selectedDate # NoDate THEN DateOfInput(selectedDate) ELSE Undefined]

\* line 42 without the trim
TitleGivenUntrimmed == inputValue # <<>>

\* the test of line 42
TitleGiven == trim(inputValue) # <<>>

\* the new todo put after the others
Appended(todo, ts) == ts \o <<todo>>

\* [newTodo, ...todos], line 50
Prepended(todo, ts) == <<todo>> \o ts

\* addTodo, lines 41-54
addTodo ==
    /\ phase = "idle"
    /\ Len(todos) < MaxTodos
    /\ IF TitleGiven
       THEN /\ pending' = ClearInputs(SetTodos(Prepended(newTodo, todos)))
            /\ phase' = "render"
            /\ ignored' = FALSE
       ELSE /\ ignored' = TRUE
            /\ UNCHANGED <<pending, phase>>
    /\ UNCHANGED <<todos, inputValue, selectedDate, store, now, tz>>

\* the array toggleTodo passes to setTodos, lines 57-59
Toggled(ts, id) ==
    [i \in 1..Len(ts) |-> IF ts[i].id = id
                          THEN [ts[i] EXCEPT !.completed = ~ts[i].completed]
                          ELSE ts[i]]

\* toggleTodo, lines 56-60
toggleTodo(id) ==
    /\ phase = "idle"
    /\ pending' = SetTodos(Toggled(todos, id))
    /\ phase' = "render"
    /\ ignored' = FALSE
    /\ UNCHANGED <<todos, inputValue, selectedDate, store, now, tz>>

\* line 63 with the test turned around
DeletedOthers(ts, id) == SelectSeq(ts, LAMBDA todo : todo.id = id)

\* the array deleteTodo passes to setTodos, line 63
Deleted(ts, id) == SelectSeq(ts, LAMBDA todo : todo.id # id)

\* deleteTodo, lines 62-64
deleteTodo(id) ==
    /\ phase = "idle"
    /\ pending' = SetTodos(Deleted(todos, id))
    /\ phase' = "render"
    /\ ignored' = FALSE
    /\ UNCHANGED <<todos, inputValue, selectedDate, store, now, tz>>

\* line 233 with the test negated
ClearedOpen(ts) == SelectSeq(ts, LAMBDA todo : todo.completed)

\* the array the Clear Completed button passes to setTodos, line 233
Cleared(ts) == SelectSeq(ts, LAMBDA todo : ~todo.completed)

\* onClick of Clear Completed, lines 230-239
clearCompleted ==
    /\ phase = "idle"
    /\ completedCount > 0
    /\ pending' = SetTodos(Cleared(todos))
    /\ phase' = "render"
    /\ ignored' = FALSE
    /\ UNCHANGED <<todos, inputValue, selectedDate, store, now, tz>>

(* Environment *)

\* the clock advances between two events
Tick ==
    /\ phase = "idle"
    /\ now < MaxClock
    /\ now' = now + 1
    /\ UNCHANGED <<todos, inputValue, selectedDate, store, pending, phase, tz, ignored>>

\* the page is loaded again: the component mounts with the values of lines 14-16
Reload ==
    /\ phase \in {"idle", "renderError", "saveError"}
    /\ todos' = <<>>
    /\ inputValue' = <<>>
    /\ selectedDate' = NoDate
    /\ pending' = NoPending
    /\ phase' = "mounted"
    /\ ignored' = FALSE
    /\ UNCHANGED <<store, now, tz>>

Next ==
    \/ LoadEffect
    \/ SaveEffect
    \/ SaveEffectThrows
    \/ Render
    \/ \E v \in Inputs : ChangeInput(v)
    \/ \E d \in DueDays : ChangeDate(d)
    \/ addTodo
    \/ \E id \in Ids : toggleTodo(id)
    \/ \E id \in Ids : deleteTodo(id)
    \/ clearCompleted
    \/ Tick
    \/ Reload

Spec == Init /\ [][Next]_vars

----------------------------------------------------------------------------
(* A second event dispatched before React has rendered the update of the     *)
(* first (two events in one task, which React batches): the handler is the   *)
(* closure of the last render, so it reads that render's todos, inputValue   *)
(* and selectedDate, and its setTodos replaces the value queued before.  The *)
(* handlers are those the last render offers: a checkbox and a Delete button *)
(* per todo, Clear Completed when a todo is completed.                       *)

\* addTodo, lines 41-54, before the re-render
addTodoBatched ==
    /\ phase = "render"
    /\ Len(todos) < MaxTodos
    /\ IF TitleGiven
       THEN /\ pending' = ClearInputs(SetTodos(Prepended(newTodo, todos)))
            /\ ignored' = FALSE
       ELSE /\ ignored' = TRUE
            /\ UNCHANGED pending
    /\ UNCHANGED <<todos, inputValue, selectedDate, store, phase, now, tz>>

\* toggleTodo, lines 56-60, before the re-render
toggleTodoBatched(id) ==
    /\ phase = "render"
    /\ \E i \in 1..Len(todos) : todos[i].id = id
    /\ pending' = SetTodos(Toggled(todos, id))
    /\ ignored' = FALSE
    /\ UNCHANGED <<todos, inputValue, selectedDate, store, phase, now, tz>>

\* deleteTodo, lines 62-64, before the re-render
deleteTodoBatched(id) ==
    /\ phase = "render"
    /\ \E i \in 1..Len(todos) : todos[i].id = id
    /\ pending' = SetTodos(Deleted(todos, id))
    /\ ignored' = FALSE
    /\ UNCHANGED <<todos, inputValue, selectedDate, store, phase, now, tz>>

\* onClick of Clear Completed, lines 230-239, before the re-render
clearCompletedBatched ==
    /\ phase = "render"
    /\ completedCount > 0
    /\ pending' = SetTodos(Cleared(todos))
    /\ ignored' = FALSE
    /\ UNCHANGED <<todos, inputValue, selectedDate, store, phase, now, tz>>

NextBatched ==
    \/ Next
    \/ addTodoBatched
    \/ \E id \in Ids : toggleTodoBatched(id)
    \/ \E id \in Ids : deleteTodoBatched(id)
    \/ clearCompletedBatched

SpecBatched == Init /\ [][NextBatched]_vars

----------------------------------------------------------------------------
(* Properties *)

Positions(ts) == 1..Len(ts)
HasId(ts, id) == \E i \in Positions(ts) : ts[i].id = id
OnlySpaces(s) == \A k \in 1..Len(s) : s[k] = " "

\* the fields of a todo that are set at creation
Fixed(todo) == <<todo.id, todo.title, todo.createdAt, todo.dueDate>>

\* a todo as addTodo builds them: a number id, a Date createdAt, a Date or no dueDate
IsTask(todo) ==
    /\ todo.id # NoId
    /\ todo.createdAt.t = "date"
    /\ todo.dueDate.t \in {"date", "undefined"}

\* a stored record that has the fields of a task
IsTaskRecord(item) ==
    /\ item.id # NoId
    /\ item.title # <<>>
    /\ item.createdAt.t = "string"
    /\ item.dueDate.t \in {"string", "undefined"}

\* the store holds something other than a serialized array of task records
Malformed(s) ==
    \/ s.kind \in {"text", "object"}
    \/ s.kind = "array" /\ \E i \in Positions(s.items) : ~IsTaskRecord(s.items[i])

\* a is b with some elements removed, the others in their order
RECURSIVE IsSubSeq(_, _)
IsSubSeq(a, b) ==
    IF a = <<>> THEN TRUE
    ELSE IF b = <<>> THEN FALSE
    ELSE IF Head(a) = Head(b) THEN IsSubSeq(Tail(a), Tail(b))
    ELSE IsSubSeq(a, Tail(b))

\* C1: in every reachable state the ids of the todos of the collection are
\* pairwise distinct.
UniqueIds ==
    \A i, j \in Positions(todos) : i # j => todos[i].id # todos[j].id

\* C2: a collection of tasks that is saved and then loaded comes back equal in
\* length, order and every field, createdAt and dueDate as Dates of the same
\* instant, an absent dueDate absent.
RoundTrip ==
    (phase = "idle" /\ \A i \in Positions(todos) : IsTask(todos[i]))
        => todosWithDates(Stringify(todos)) = todos

\* C3: whenever React has nothing left to do, that is after every operation and
\* its save and before the next operation is accepted, the store holds the
\* serialization of the collection in memory.
DurableAfterMutation ==
    phase = "idle" => store = Stringify(todos)

\* C3 witness: an add with a due date and a toggle have been saved
DurableAfterMutationWitness ==
    /\ phase = "idle"
    /\ Len(todos) = 2
    /\ todos[1].completed
    /\ todos[2].dueDate.t = "date"
    /\ store.kind = "array" /\ Len(store.items) = 2

\* C4: when the store holds malformed data at startup, the load effect leaves
\* the collection empty (it queues nothing, or the empty collection).
MalformedLoadsEmpty ==
    (phase = "saveEffect" /\ Malformed(store) /\ pending.set) => pending.val = <<>>

\* C5: a failed write never puts the component in an error state.
SaveFailureNonFatal ==
    phase # "saveError"

\* C6: a render (which evaluates isOverdue and isDueToday) changes no field of
\* any todo, and toggleTodo changes no id, title, createdAt or dueDate.
FieldsImmutable ==
    [][/\ (Render /\ phase' = "saveEffect") =>
            /\ Len(todos') = Len(pending.val)
            /\ \A i \in Positions(pending.val) : todos'[i] = pending.val[i]
       /\ \A id \in Ids : toggleTodo(id) =>
            /\ Len(pending'.val) = Len(todos)
            /\ \A i \in Positions(todos) : Fixed(pending'.val[i]) = Fixed(todos[i])
      ]_vars

\* C7: addTodo with an input that is empty or holds only spaces queues no update
\* and changes neither the collection nor the store, and no error state follows.
BlankTitleIgnored ==
    [][(addTodo /\ OnlySpaces(inputValue)) =>
            /\ UNCHANGED <<todos, store, pending, phase>>
      ]_vars

\* C7 witness: addTodo has returned on an input of spaces only, a todo in the list
BlankTitleIgnoredWitness ==
    /\ ignored
    /\ inputValue = <<" ">>
    /\ phase = "idle"
    /\ todos # <<>>

\* C8: toggleTodo(x) and deleteTodo(x), for an x that no todo has as id, queue a
\* collection equal to the current one, and the render that follows commits a
\* collection equal to it.
AbsentIdNoOp ==
    [][/\ \A id \in Ids :
            ((toggleTodo(id) \/ deleteTodo(id)) /\ ~HasId(todos, id))
                => (pending'.set /\ pending'.val = todos)
       /\ (Render /\ pending.val = todos) => (todos' = todos /\ phase' = "saveEffect")
      ]_vars

\* C8 witness: an update equal to the collection, which is not empty, is queued
AbsentIdNoOpWitness ==
    /\ phase = "render"
    /\ pending.set
    /\ pending.val = todos
    /\ Len(todos) = 2

\* C9: addTodo with a title that is not blank puts exactly one todo, not
\* completed, in front of the others, which keep their order; toggleTodo keeps
\* every position; deleteTodo and Clear Completed leave what remains in its
\* order; and a render keeps the order.
NewestFirst ==
    [][/\ (addTodo /\ ~OnlySpaces(inputValue)) =>
            /\ pending'.set
            /\ Len(pending'.val) = Len(todos) + 1
            /\ Tail(pending'.val) = todos
            /\ ~Head(pending'.val).completed
            /\ Head(pending'.val).createdAt = DateOf(now)
       /\ \A id \in Ids : toggleTodo(id) =>
            /\ Len(pending'.val) = Len(todos)
            /\ \A i \in Positions(todos) : Fixed(pending'.val[i]) = Fixed(todos[i])
       /\ \A id \in Ids : deleteTodo(id) => IsSubSeq(pending'.val, todos)
       /\ clearCompleted => IsSubSeq(pending'.val, todos)
       /\ (Render /\ phase' = "saveEffect") =>
            /\ Len(todos') = Len(pending.val)
            /\ \A i \in Positions(pending.val) :
                  /\ todos'[i].id = pending.val[i].id
                  /\ todos'[i].title = pending.val[i].title
                  /\ todos'[i].createdAt = pending.val[i].createdAt
                  /\ todos'[i].completed = pending.val[i].completed
      ]_vars

\* C9 witness: a second todo, created later than the first, is queued in front of it
NewestFirstWitness ==
    /\ phase = "render"
    /\ pending.set
    /\ Len(todos) = 1
    /\ Len(pending.val) = 2
    /\ pending.val[2] = todos[1]
    /\ pending.val[1].createdAt.v > todos[1].createdAt.v

\* C10: toggleTodo(id), when a todo has that id, changes exactly one todo of the
\* collection: the completed flag of that one is flipped, and nothing else is.
Changed(old, new) == {i \in Positions(old) : new[i] # old[i]}

ToggleFlipsOne ==
    [][\A id \in Ids : (toggleTodo(id) /\ HasId(todos, id)) =>
            /\ Len(pending'.val) = Len(todos)
            /\ Cardinality(Changed(todos, pending'.val)) = 1
            /\ \A i \in Changed(todos, pending'.val) :
                  /\ todos[i].id = id
                  /\ pending'.val[i] = [todos[i] EXCEPT !.completed = ~todos[i].completed]
      ]_vars

\* C11: deleteTodo(id), when a todo has that id, removes exactly one todo, which
\* has that id; the others stay, unchanged and in their order.
DeleteRemovesOne ==
    [][\A id \in Ids : (deleteTodo(id) /\ HasId(todos, id)) =>
            /\ Len(pending'.val) = Len(todos) - 1
            /\ IsSubSeq(pending'.val, todos)
      ]_vars

\* C12: Clear Completed queues the collection without its completed todos: none
\* of the queued todos is completed, and the queued todos are the todos that
\* were not completed, unchanged and in their order; the render that follows
\* keeps them.
Open(ts) == {i \in Positions(ts) : ~ts[i].completed}

ClearRemovesCompleted ==
    [][/\ clearCompleted =>
            /\ pending'.set
            /\ \A i \in Positions(pending'.val) : ~pending'.val[i].completed
            /\ Len(pending'.val) = Cardinality(Open(todos))
            /\ IsSubSeq(pending'.val, todos)
       /\ (Render /\ IsSubSeq(pending.val, todos)) =>
            (todos' = pending.val /\ phase' = "saveEffect")
      ]_vars

\* C12 witness: with [B, A] and A completed, Clear Completed has queued [B]
ClearRemovesCompletedWitness ==
    /\ phase = "render"
    /\ Len(todos) = 2
    /\ ~todos[1].completed
    /\ todos[2].completed
    /\ pending.set
    /\ pending.val = <<todos[1]>>

\* C13: in every reachable state every todo of the collection has a title that
\* is not empty and neither starts nor ends with a space.
TitlesTrimmed ==
    \A i \in Positions(todos) :
        /\ todos[i].title # <<>>
        /\ ~IsSpace(Head(todos[i].title))
        /\ ~IsSpace(todos[i].title[Len(todos[i].title)])

\* C14: for every todo, rendered or queued, and the current time, isOverdue and
\* isDueToday are not both true, whether isDueToday reads the due date before or
\* after isOverdue has set its hours to zero.
DueDates ==
    {todos[i].dueDate : i \in Positions(todos)}
        \cup {pending.val[i].dueDate : i \in Positions(pending.val)}

ExclusiveDueViews ==
    \A d \in DueDates :
        /\ ~(isOverdue(d, now, tz) /\ isDueToday(d, now, tz))
        /\ ~(isOverdue(d, now, tz) /\ isDueToday(DueDateAfterIsOverdue(d, tz), now, tz))

\* C14 witness: a queued todo is due today and its due date is not yet at local
\* midnight
ExclusiveDueViewsWitness ==
    /\ phase = "render"
    /\ \E i \in Positions(pending.val) :
          /\ isDueToday(pending.val[i].dueDate, now, tz)
          /\ DueDateAfterIsOverdue(pending.val[i].dueDate, tz) # pending.val[i].dueDate

\* C15: for every todo, freshly added or restored from the store, isOverdue and
\* isDueToday raise no error and give: overdue iff the due date is set and its
\* calendar day is before today's, due today iff it is set and its day is today's.
DueDateSet(d) == d.t \notin {"undefined", "null"}

DueViewsByDay ==
    \A d \in DueDates :
        /\ ~IsOverdueThrows(d)
        /\ isOverdue(d, now, tz) <=> (DueDateSet(d) /\ LocalDay(d.v, tz) < LocalDay(now, tz))
        /\ isDueToday(d, now, tz) <=> (DueDateSet(d) /\ LocalDay(d.v, tz) = LocalDay(now, tz))

\* C16: in every reachable state total is the length of the collection,
\* completed the number of todos whose flag is true, remaining their
\* difference, so total = completed + remaining and 0 <= completed <= total.
StatsInvariant ==
    /\ totalCount = Len(todos)
    /\ completedCount = Cardinality({i \in Positions(todos) : todos[i].completed})
    /\ remainingCount = Cardinality(Open(todos))
    /\ totalCount = completedCount + remainingCount
    /\ 0 <= completedCount /\ completedCount <= totalCount

\* C16 witness: two todos, one of them completed
StatsInvariantWitness ==
    /\ phase = "idle"
    /\ totalCount = 2
    /\ completedCount = 1
    /\ remainingCount = 1

\* C17: when the store holds a well-formed collection at startup, the save
\* effect that runs while the loaded collection is still queued leaves the store
\* as it is: the empty initial collection is not written over the stored one.
StartupKeepsStore ==
    [][(SaveEffect /\ pending.set /\ store.kind = "array" /\ ~Malformed(store))
            => store' = store
      ]_vars

\* C19: at startup with stored text that does not parse, the load effect queues
\* nothing, the collection stays empty, and the save effect overwrites the text
\* with the serialization of the empty collection.
UnparsableOverwritten ==
    [][/\ (LoadEffect /\ store.kind = "text") =>
            (~pending'.set /\ todos' = <<>> /\ store' = store)
       /\ (SaveEffect /\ store.kind = "text") =>
            (todos' = <<>> /\ store' = Stringify(<<>>) /\ phase' = "idle")
      ]_vars

\* C19 witness: the load effect has run on text that does not parse, and the
\* save effect comes next
UnparsableOverwrittenWitness ==
    /\ phase = "saveEffect"
    /\ store.kind = "text"
    /\ todos = <<>>
    /\ ~pending.set

\* C18: every operation is applied to the latest collection, the one queued if
\* an update is queued and the rendered one otherwise, also when it is
\* dispatched before the re-render: an add with a title puts one todo in front
\* of the latest collection and keeps all its todos, and toggle, delete and
\* Clear Completed queue the latest collection with their change (stated for
\* collections of tasks as addTodo builds them).
Latest == IF pending.set THEN pending.val ELSE todos

AllTasks(ts) == \A i \in Positions(ts) : IsTask(ts[i])

NoLostUpdate ==
    [][AllTasks(todos) =>
        /\ ((addTodo \/ addTodoBatched) /\ ~OnlySpaces(inputValue)) =>
            /\ Len(pending'.val) = Len(Latest) + 1
            /\ Tail(pending'.val) = Latest
        /\ \A id \in Ids : (toggleTodo(id) \/ toggleTodoBatched(id)) =>
            pending'.val = Toggled(Latest, id)
        /\ \A id \in Ids : (deleteTodo(id) \/ deleteTodoBatched(id)) =>
            pending'.val = Deleted(Latest, id)
        /\ (clearCompleted \/ clearCompletedBatched) =>
            pending'.val = Cleared(Latest)
      ]_vars

====
